---------------------------- MODULE Spec2Model ----------------------------
(***************************************************************************)
(* A model of mindmap/transform.py: convert_nested_bullets_to_subheadings. *)
(* A text is a sequence of characters (one-character strings); a line is a *)
(* text without line terminators.  The function is modelled statement by   *)
(* statement: splitlines, one loop iteration per line (heading, bullet or  *)
(* other), and the final join.                                             *)
(***************************************************************************)
EXTENDS Integers, Sequences, FiniteSets, TLC

VARIABLES markdown_text, lines, converted_lines, current_heading_level, idx,
          pc, result

vars == <<markdown_text, lines, converted_lines, current_heading_level, idx,
          pc, result>>

(***************************************************************************)
(* Characters.                                                             *)
(***************************************************************************)
SP == " "
TAB == "\t"
\* U+00A0, a character that str.strip() and the regex \s treat as
\* whitespace but that is neither a space nor a tab.
NBSP == "nbsp"
LF == "\n"
CR == "\r"
HASH == "#"

\* str.isspace(): what line.strip() removes and what \s matches.
IsSpace(c) == c \in {SP, TAB, NBSP, LF, CR}

\* The line boundaries of str.splitlines() that the model's alphabet holds.
IsLineBreak(c) == c \in {LF, CR}

\* The character class [-*+] of the bullet pattern.
BulletMarkers == {"-", "*", "+"}

\* '#{1,7}': the most '#' characters a heading may open with.
MaxHeadingHashes == 7

\* min(..., 6): the deepest subheading a bullet is given.
MaxSubheadingLevel == 6

\* leading_spaces // 4
IndentWidth == 4

\* re.sub('\t', '    ', line): the spaces that replace one tab.
TabWidth == 4

(***************************************************************************)
(* Sequence helpers.                                                       *)
(***************************************************************************)
Min(a, b) == IF a <= b THEN a ELSE b

\* n copies of character c: the Python expression c * n.
Repeat(c, n) == [k \in 1..n |-> c]

RECURSIVE Concat(_)
\* The concatenation of a sequence of texts.
Concat(ss) == IF ss = <<>> THEN <<>> ELSE Head(ss) \o Concat(Tail(ss))

(***************************************************************************)
(* str.splitlines(): the text cut at every line boundary, "\r\n" counting  *)
(* as one boundary; the boundaries are dropped, and a text that ends with  *)
(* a boundary has no empty last line.                                      *)
(***************************************************************************)
RECURSIVE SplitFrom(_, _, _)
SplitFrom(s, i, cur) ==
  IF i > Len(s) THEN (IF cur = <<>> THEN <<>> ELSE <<cur>>)
  ELSE IF IsLineBreak(s[i])
       THEN LET skip == IF s[i] = CR /\ i < Len(s) /\ s[i + 1] = LF
                        THEN 2 ELSE 1
            IN <<cur>> \o SplitFrom(s, i + skip, <<>>)
       ELSE SplitFrom(s, i + 1, Append(cur, s[i]))

Splitlines(s) == SplitFrom(s, 1, <<>>)

RECURSIVE JoinLinesTerminated(_)
\* A join that writes "\n" after every line, the last one too.
JoinLinesTerminated(ls) ==
  IF ls = <<>> THEN <<>> ELSE ls[1] \o <<LF>> \o JoinLinesTerminated(Tail(ls))

(***************************************************************************)
(* '\n'.join(converted_lines)                                              *)
(***************************************************************************)
RECURSIVE JoinLines(_)
JoinLines(ls) ==
  IF ls = <<>> THEN <<>>
  ELSE IF Len(ls) = 1 THEN ls[1]
  ELSE ls[1] \o <<LF>> \o JoinLines(Tail(ls))

(***************************************************************************)
(* The per-line computations of the loop body.                             *)
(***************************************************************************)
\* re.sub('\t', '    ', line, flags=re.DOTALL)
ReplaceTabs(line) ==
  Concat([k \in 1..Len(line) |->
            IF line[k] = TAB THEN Repeat(SP, TabWidth) ELSE <<line[k]>>])

\* len(line) - len(line.lstrip(' ')): the length of the leading run of ' '.
LeadingSpaces(line) ==
  LET stops == {k \in 1..Len(line) : line[k] # SP}
  IN IF stops = {} THEN Len(line)
     ELSE (CHOOSE k \in stops : \A j \in stops : k <= j) - 1

\* An indent level of two spaces, as the comment of the code has it.
IndentLevelOfTwoSpaces(line) == LeadingSpaces(line) \div 2

\* leading_spaces // 4
IndentLevel(line) == LeadingSpaces(line) \div IndentWidth

\* line.strip(): leading and trailing whitespace removed.
Strip(line) ==
  LET keep == {k \in 1..Len(line) : ~IsSpace(line[k])}
  IN IF keep = {} THEN <<>>
     ELSE SubSeq(line,
                 CHOOSE k \in keep : \A j \in keep : k <= j,
                 CHOOSE k \in keep : \A j \in keep : k >= j)

\* The ways '^(#{1,7})\s+' can match at the start of stripped: the numbers k
\* of '#' characters taken by the group, the next character being
\* whitespace.
HeadingGroups(stripped) ==
  {k \in 1..MaxHeadingHashes :
     /\ k < Len(stripped)
     /\ \A j \in 1..k : stripped[j] = HASH
     /\ IsSpace(stripped[k + 1])}

\* re.match(r'^(#{1,7})\s+(.*)', stripped) is not None
HeadingMatch(stripped) == HeadingGroups(stripped) # {}

\* len(heading_match.group(1)): the quantifier is greedy.
HeadingMatchLevel(stripped) ==
  CHOOSE k \in HeadingGroups(stripped) :
    \A j \in HeadingGroups(stripped) : k >= j

\* A bullet pattern whose character class also holds '#'.
BulletMatchWithHash(stripped) ==
  /\ Len(stripped) >= 2
  /\ stripped[1] \in BulletMarkers \cup {HASH}
  /\ IsSpace(stripped[2])

\* re.match(r'^[-*+]\s+(.*)', stripped) is not None
BulletMatch(stripped) ==
  /\ Len(stripped) >= 2
  /\ stripped[1] \in BulletMarkers
  /\ IsSpace(stripped[2])

\* The content of a bullet pattern '^[-*+]\s(.*)': one whitespace character
\* skipped, not all of them.
BulletContentAfterOneSpace(stripped) == SubSeq(stripped, 3, Len(stripped))

\* bullet_match.group(1): what follows the marker and the greedy \s+.
\* ('.' stops at "\n", which no element of lines contains.)
BulletContent(stripped) ==
  LET rest == {k \in 2..Len(stripped) : ~IsSpace(stripped[k])}
  IN IF rest = {} THEN <<>>
     ELSE SubSeq(stripped, CHOOSE k \in rest : \A j \in rest : k <= j,
                 Len(stripped))

\* A subheading level without the cap.
SubheadingLevelUncapped(level, indent) == level + indent + 1

\* min(current_heading_level + indent_level + 1, 6)
SubheadingLevel(level, indent) == Min(level + indent + 1, MaxSubheadingLevel)

\* A new line without the space between the '#' characters and the content.
NewLineWithoutSpace(level, content) == Repeat(HASH, level) \o content

\* f"{'#' * subheading_level} {content}"
NewLine(level, content) == Repeat(HASH, level) \o <<SP>> \o content

(***************************************************************************)
(* The input documents.                                                    *)
(***************************************************************************)
\* Most lines of a generated document.
MaxLines == 3

\* Most literal spaces a generated line is indented by.
MaxSpaces == 4

\* Most '#' characters a generated line opens with.
MaxHashes == 8

SeqsUpTo(S, n) == UNION {[1..k -> S] : k \in 0..n}

Hashes(n) == Repeat(HASH, n)

\* Indentations: an optional tab or no-break space, spaces, an optional tab.
Leads ==
  {pre \o Repeat(SP, n) \o post :
     pre \in {<<>>, <<TAB>>, <<NBSP>>}, n \in 0..MaxSpaces,
     post \in {<<>>, <<TAB>>}}

\* How a line opens after its indentation.
Heads ==
  {<<>>, <<"a">>} \cup {Hashes(n) : n \in {1, MaxHeadingHashes, MaxHashes}}
    \cup {<<m>> : m \in BulletMarkers}

Separators == {<<>>, <<SP>>, <<TAB>>, <<NBSP, SP>>}

Contents == {<<>>, <<"a">>, <<"a", TAB, "b">>, <<HASH, "a">>, <<"-", SP, "a">>}

Trails == {<<>>, <<SP, TAB>>}

\* Lines that differ in their indentation.
IndentLines ==
  {l \o h \o <<SP, "a">> : l \in Leads, h \in {<<"-">>, <<HASH, HASH>>, <<>>}}

\* Lines that differ in their shape after the indentation.
ShapeLines ==
  {h \o s \o c \o t : h \in Heads, s \in Separators, c \in Contents,
                      t \in Trails}

WideLines == IndentLines \cup ShapeLines

\* Documents that put one line after an optional heading and before an
\* optional bullet.
ContextDocs ==
  {pre \o <<l>> \o post :
     pre \in {<<>>} \cup {<<Hashes(n) \o <<SP, "a">>>> : n \in 1..MaxHashes},
     l \in WideLines,
     post \in {<<>>, <<<<"-", SP, "a">>>>}}

CoreLines ==
  {<<>>, <<"a">>, <<HASH, SP, "a">>, Hashes(MaxHeadingHashes) \o <<SP, "a">>,
   <<"-", SP, "a">>, <<TAB, "*", SP, "a">>}

\* Every document of at most MaxLines lines over CoreLines.
CoreDocs == SeqsUpTo(CoreLines, MaxLines)

\* The end-to-end example.
ExampleInput ==
  << <<"#", " ", "R", "o", "o", "t">>,
     <<"-", " ", "c", "h", "i", "l", "d", " ", "o", "n", "e">>,
     <<" ", " ", " ", " ", "-", " ", "g", "r", "a", "n", "d", "c", "h", "i",
       "l", "d">>,
     <<"#", "#", " ", "S", "e", "c", "o", "n", "d">>,
     <<"-", " ", "a", "n", "o", "t", "h", "e", "r">> >>

ExampleOutput ==
  << <<"#", " ", "R", "o", "o", "t">>,
     <<"#", "#", " ", "c", "h", "i", "l", "d", " ", "o", "n", "e">>,
     <<"#", "#", "#", " ", "g", "r", "a", "n", "d", "c", "h", "i", "l", "d">>,
     <<"#", "#", " ", "S", "e", "c", "o", "n", "d">>,
     <<"#", "#", "#", " ", "a", "n", "o", "t", "h", "e", "r">> >>

\* "### Title" then "- content", and "\t- item".
ExampleDocs ==
  {ExampleInput,
   << <<"#", "#", "#", " ", "T", "i", "t", "l", "e">>,
      <<"-", " ", "c", "o", "n", "t", "e", "n", "t">> >>,
   << <<TAB, "-", " ", "i", "t", "e", "m">> >>}

Terminators == {<<LF>>, <<CR, LF>>}

RECURSIVE JoinWith(_, _)
JoinWith(ls, t) ==
  IF ls = <<>> THEN <<>>
  ELSE IF Len(ls) = 1 THEN ls[1]
  ELSE ls[1] \o t \o JoinWith(Tail(ls), t)

\* The texts of the documents: the lines joined by a terminator, with or
\* without a terminator after the last line.
Texts ==
  {JoinWith(d, t) \o e :
     d \in CoreDocs \cup ExampleDocs, t \in Terminators, e \in {<<>>, <<LF>>}}
  \cup {JoinWith(d, <<LF>>) \o e : d \in ContextDocs, e \in {<<>>, <<LF>>}}

(***************************************************************************)
(* The function as a state machine.                                        *)
(***************************************************************************)
Init ==
  /\ markdown_text \in Texts
  /\ lines = <<>>
  /\ converted_lines = <<>>
  /\ current_heading_level = 0
  /\ idx = 0
  /\ pc = "start"
  /\ result = <<>>

\* lines = markdown_text.splitlines(); converted_lines = [];
\* current_heading_level = 0
Split ==
  /\ pc = "start"
  /\ lines' = Splitlines(markdown_text)
  /\ converted_lines' = <<>>
  /\ current_heading_level' = 0
  /\ idx' = 0
  /\ pc' = "loop"
  /\ UNCHANGED <<markdown_text, result>>

\* The line the next iteration of the loop reads.
original_line == lines[idx + 1]

\* stripped, as the loop body computes it for that line.
stripped == Strip(ReplaceTabs(original_line))

\* if heading_match:
TakesHeadingBranch == HeadingMatch(stripped)

\* if bullet_match: (reached only when heading_match is None)
TakesBulletBranch == ~HeadingMatch(stripped) /\ BulletMatch(stripped)

\* Other lines: reached only when neither pattern matched.
TakesOtherBranch == ~HeadingMatch(stripped) /\ ~BulletMatch(stripped)

\* A heading branch that emits the stripped line.
HeadingLineStripped ==
  /\ pc = "loop"
  /\ idx < Len(lines)
  /\ TakesHeadingBranch
  /\ current_heading_level' = HeadingMatchLevel(stripped)
  /\ converted_lines' = Append(converted_lines, stripped)
  /\ idx' = idx + 1
  /\ UNCHANGED <<markdown_text, lines, pc, result>>

\* if heading_match: ... continue
HeadingLine ==
  /\ pc = "loop"
  /\ idx < Len(lines)
  /\ TakesHeadingBranch
  /\ current_heading_level' = HeadingMatchLevel(stripped)
  /\ converted_lines' = Append(converted_lines, original_line)
  /\ idx' = idx + 1
  /\ UNCHANGED <<markdown_text, lines, pc, result>>

\* A bullet branch that resets the heading level.
BulletLineResetsLevel ==
  /\ pc = "loop"
  /\ idx < Len(lines)
  /\ TakesBulletBranch
  /\ converted_lines' =
       Append(converted_lines,
              NewLine(SubheadingLevel(current_heading_level,
                                      IndentLevel(ReplaceTabs(original_line))),
                      BulletContent(stripped)))
  /\ current_heading_level' = 0
  /\ idx' = idx + 1
  /\ UNCHANGED <<markdown_text, lines, pc, result>>

\* if bullet_match: ... continue
BulletLine ==
  /\ pc = "loop"
  /\ idx < Len(lines)
  /\ TakesBulletBranch
  /\ converted_lines' =
       Append(converted_lines,
              NewLine(SubheadingLevel(current_heading_level,
                                      IndentLevel(ReplaceTabs(original_line))),
                      BulletContent(stripped)))
  /\ idx' = idx + 1
  /\ UNCHANGED <<markdown_text, lines, current_heading_level, pc, result>>

\* An other-line branch that emits the line with its tabs replaced.
OtherLineTabsReplaced ==
  /\ pc = "loop"
  /\ idx < Len(lines)
  /\ TakesOtherBranch
  /\ converted_lines' = Append(converted_lines, ReplaceTabs(original_line))
  /\ idx' = idx + 1
  /\ UNCHANGED <<markdown_text, lines, current_heading_level, pc, result>>

\* Other lines
OtherLine ==
  /\ pc = "loop"
  /\ idx < Len(lines)
  /\ TakesOtherBranch
  /\ converted_lines' = Append(converted_lines, original_line)
  /\ idx' = idx + 1
  /\ UNCHANGED <<markdown_text, lines, current_heading_level, pc, result>>

\* return '\n'.join(converted_lines)
Return ==
  /\ pc = "loop"
  /\ idx = Len(lines)
  /\ result' = JoinLines(converted_lines)
  /\ pc' = "done"
  /\ UNCHANGED <<markdown_text, lines, converted_lines, current_heading_level,
                 idx>>

Next == Split \/ HeadingLine \/ BulletLine \/ OtherLine \/ Return

Spec == Init /\ [][Next]_vars

(***************************************************************************)
(* The whole loop as a function of the sequence of lines: the lines it     *)
(* appends to converted_lines, starting from heading level `level`.        *)
(***************************************************************************)
RECURSIVE ConvertFrom(_, _)
ConvertFrom(ls, level) ==
  IF ls = <<>> THEN <<>>
  ELSE LET line == ReplaceTabs(Head(ls))
           s == Strip(line)
       IN IF HeadingMatch(s)
          THEN <<Head(ls)>> \o ConvertFrom(Tail(ls), HeadingMatchLevel(s))
          ELSE IF BulletMatch(s)
          THEN <<NewLine(SubheadingLevel(level, IndentLevel(line)),
                         BulletContent(s))>>
                 \o ConvertFrom(Tail(ls), level)
          ELSE <<Head(ls)>> \o ConvertFrom(Tail(ls), level)

ConvertLines(ls) == ConvertFrom(ls, 0)

(***************************************************************************)
(* The vocabulary of the properties, defined on the input lines without    *)
(* the operators of the loop body.                                         *)
(***************************************************************************)
RECURSIVE DropLeadingWhitespace(_)
DropLeadingWhitespace(s) ==
  IF s # <<>> /\ IsSpace(Head(s)) THEN DropLeadingWhitespace(Tail(s)) ELSE s

RECURSIVE DropTrailingWhitespace(_)
DropTrailingWhitespace(s) ==
  IF s # <<>> /\ IsSpace(s[Len(s)])
  THEN DropTrailingWhitespace(SubSeq(s, 1, Len(s) - 1))
  ELSE s

\* The trimmed text of a line.
Trimmed(s) == DropTrailingWhitespace(DropLeadingWhitespace(s))

RECURSIVE HashRun(_)
\* The number of '#' characters a text opens with.
HashRun(s) == IF s # <<>> /\ Head(s) = HASH THEN 1 + HashRun(Tail(s)) ELSE 0

RECURSIVE TabsExpanded(_)
\* The text with every tab written as four spaces.
TabsExpanded(s) ==
  IF s = <<>> THEN <<>>
  ELSE (IF Head(s) = TAB THEN <<SP, SP, SP, SP>> ELSE <<Head(s)>>)
         \o TabsExpanded(Tail(s))

RECURSIVE IndentColumns(_)
\* S: the leading spaces of a line, each leading tab counted as four.
IndentColumns(s) ==
  IF s = <<>> THEN 0
  ELSE IF Head(s) = SP THEN 1 + IndentColumns(Tail(s))
  ELSE IF Head(s) = TAB THEN 4 + IndentColumns(Tail(s))
  ELSE 0

\* The trimmed text is 1 to 7 '#' characters followed by whitespace.
IsHeadingText(line) ==
  LET t == Trimmed(line)
      n == HashRun(t)
  IN n >= 1 /\ n <= 7 /\ Len(t) > n /\ IsSpace(t[n + 1])

\* The '#' count of a heading line.
HeadingCount(line) == HashRun(Trimmed(line))

\* The trimmed text is a marker, then whitespace, then content.
IsBulletText(line) ==
  LET t == Trimmed(line)
  IN Len(t) >= 2 /\ t[1] \in {"-", "*", "+"} /\ IsSpace(t[2])

IsOtherText(line) == ~IsHeadingText(line) /\ ~IsBulletText(line)

\* The content of a bullet whose trimmed text is t: what follows the marker
\* and its whitespace.
ContentOf(t) == DropLeadingWhitespace(Tail(t))

RECURSIVE LastHeadingCount(_)
\* H: the '#' count of the last heading line of ls, 0 if it has none.
LastHeadingCount(ls) ==
  IF ls = <<>> THEN 0
  ELSE IF IsHeadingText(ls[Len(ls)]) THEN HeadingCount(ls[Len(ls)])
  ELSE LastHeadingCount(SubSeq(ls, 1, Len(ls) - 1))

\* H for line k of the document.
HeadingAbove(k) == LastHeadingCount(SubSeq(lines, 1, k - 1))

\* The level the depth formula gives line k.
FormulaLevel(k) ==
  LET sum == HeadingAbove(k) + (IndentColumns(lines[k]) \div 4) + 1
  IN IF sum < 6 THEN sum ELSE 6

\* The lines processed so far.
Processed == 1..Len(converted_lines)

ProcessedBullets == {k \in Processed : IsBulletText(lines[k])}

ProcessedHeadings == {k \in Processed : IsHeadingText(lines[k])}

ProcessedOthers == {k \in Processed : IsOtherText(lines[k])}

\* Whether the last line of the document is empty.
LastLineEmpty == lines # <<>> /\ lines[Len(lines)] = <<>>

ExampleInputText ==
  <<"#", " ", "R", "o", "o", "t", "\n",
    "-", " ", "c", "h", "i", "l", "d", " ", "o", "n", "e", "\n",
    " ", " ", " ", " ", "-", " ", "g", "r", "a", "n", "d", "c", "h", "i",
    "l", "d", "\n",
    "#", "#", " ", "S", "e", "c", "o", "n", "d", "\n",
    "-", " ", "a", "n", "o", "t", "h", "e", "r">>

ExampleOutputText ==
  <<"#", " ", "R", "o", "o", "t", "\n",
    "#", "#", " ", "c", "h", "i", "l", "d", " ", "o", "n", "e", "\n",
    "#", "#", "#", " ", "g", "r", "a", "n", "d", "c", "h", "i", "l", "d",
    "\n",
    "#", "#", " ", "S", "e", "c", "o", "n", "d", "\n",
    "#", "#", "#", " ", "a", "n", "o", "t", "h", "e", "r">>

(***************************************************************************)
(* The properties.                                                         *)
(***************************************************************************)

\* C1, as stated: for every input document, the returned text has as many
\* lines (by splitlines) as the input text.
C1_LineCountInvariance ==
  pc = "done" => Len(Splitlines(result)) = Len(Splitlines(markdown_text))

\* C1, amended: converted_lines holds exactly one line per input line
\* processed, so no line is added, removed, merged or split; the returned
\* text has as many lines (by splitlines) as the input text unless the last
\* input line is empty, and then it has exactly one fewer.
C1_LineCountUpToLastEmptyLine ==
  /\ pc # "start" => Len(converted_lines) = idx /\ idx <= Len(lines)
  /\ pc = "done" =>
       /\ Len(converted_lines) = Len(Splitlines(markdown_text))
       /\ Len(Splitlines(result)) =
            Len(Splitlines(markdown_text)) - (IF LastLineEmpty THEN 1 ELSE 0)

C1_Witness ==
  /\ pc = "done"
  /\ Len(lines) >= 2
  /\ LastLineEmpty
  /\ Len(Splitlines(result)) = Len(lines) - 1

C3_HeadingPassthrough ==
  /\ \A k \in ProcessedHeadings :
       /\ converted_lines[k] = lines[k]
       /\ k = idx => current_heading_level = HeadingCount(lines[k])
       /\ \A j \in ProcessedBullets :
            (/\ j > k
             /\ IndentColumns(lines[j]) \div 4 = 0
             /\ \A m \in (k + 1)..(j - 1) : ~IsHeadingText(lines[m]))
              => /\ HashRun(converted_lines[j]) =
                      (IF HeadingCount(lines[k]) + 1 < 6
                       THEN HeadingCount(lines[k]) + 1 ELSE 6)
                 /\ converted_lines[j][HashRun(converted_lines[j]) + 1] = SP
  /\ (pc = "done" /\ lines = << <<"#", "#", "#", " ", "T", "i", "t", "l", "e">>,
                               <<"-", " ", "c", "o", "n", "t", "e", "n", "t">> >>)
       => converted_lines =
            << <<"#", "#", "#", " ", "T", "i", "t", "l", "e">>,
               <<"#", "#", "#", "#", " ", "c", "o", "n", "t", "e", "n", "t">> >>

C3_Witness ==
  \E k \in ProcessedHeadings :
    /\ lines[k] # Trimmed(TabsExpanded(lines[k]))
    /\ TAB \in {lines[k][j] : j \in 1..Len(lines[k])}
    /\ HeadingCount(lines[k]) = 7
    /\ converted_lines[k] = lines[k]
    /\ k + 1 \in ProcessedBullets
    /\ converted_lines[k + 1] = <<"#", "#", "#", "#", "#", "#", " ", "a">>

\* C4: a step that processes a line that is neither a heading nor a bullet
\* appends the input line itself, byte for byte, and leaves
\* current_heading_level unchanged.
C4_OtherPassthrough ==
  [][(pc = "loop" /\ idx < Len(lines) /\ IsOtherText(lines[idx + 1]))
       => /\ converted_lines' = Append(converted_lines, lines[idx + 1])
          /\ current_heading_level' = current_heading_level]_vars

C4_Witness ==
  /\ current_heading_level = 3
  /\ ProcessedHeadings # {}
  /\ idx \in ProcessedOthers
  /\ lines[idx] = <<"-", " ", TAB>>
  /\ converted_lines[idx] = <<"-", " ", TAB>>

\* C5: every line emitted for a bullet opens with between 1 and 6 '#'
\* characters followed by a space, and with exactly 6 whenever the heading
\* level above it is 6 or 7, whatever its indent level.
C5_SubheadingCap ==
  \A k \in ProcessedBullets :
    /\ HashRun(converted_lines[k]) \in 1..6
    /\ converted_lines[k][HashRun(converted_lines[k]) + 1] = SP
    /\ HeadingAbove(k) \in {6, 7} => HashRun(converted_lines[k]) = 6
    /\ HeadingAbove(k) + (IndentColumns(lines[k]) \div 4) + 1 >= 6
         => HashRun(converted_lines[k]) = 6

C5_Witness ==
  /\ \E k \in ProcessedBullets :
       /\ HeadingAbove(k) = 7
       /\ IndentColumns(lines[k]) >= 8
       /\ HashRun(converted_lines[k]) = 6
  /\ \E k \in ProcessedBullets :
       /\ HeadingAbove(k) = 7
       /\ IndentColumns(lines[k]) = 0
       /\ HashRun(converted_lines[k]) = 6

\* C6: no line matches both the heading and the bullet pattern; every line
\* is in exactly one of the categories heading, bullet and other, and the
\* loop takes the branch of that category and no other; exactly one line
\* is emitted for every line processed, and the loop ends with one emitted
\* line per input line.
C6_ExactlyOneCategory ==
  /\ pc # "start" => Len(converted_lines) = idx /\ idx <= Len(lines)
  /\ pc = "done" => Len(converted_lines) = Len(lines)
  /\ \A k \in 1..Len(lines) :
       LET s == Strip(ReplaceTabs(lines[k]))
       IN /\ ~(HeadingMatch(s) /\ BulletMatch(s))
          /\ HeadingMatch(s) <=> IsHeadingText(lines[k])
          /\ BulletMatch(s) <=> IsBulletText(lines[k])
          /\ Cardinality({c \in {"heading", "bullet", "other"} :
                            \/ c = "heading" /\ IsHeadingText(lines[k])
                            \/ c = "bullet" /\ IsBulletText(lines[k])
                            \/ c = "other" /\ IsOtherText(lines[k])}) = 1
  /\ (pc = "loop" /\ idx < Len(lines)) =>
       Cardinality({c \in {"heading", "bullet", "other"} :
                      \/ c = "heading" /\ TakesHeadingBranch
                      \/ c = "bullet" /\ TakesBulletBranch
                      \/ c = "other" /\ TakesOtherBranch}) = 1

C6_Witness ==
  /\ pc = "done"
  /\ ProcessedHeadings # {}
  /\ ProcessedBullets # {}
  /\ ProcessedOthers # {}
  /\ Len(converted_lines) = 3

C8_TabsInContentPreserved ==
  \A k \in ProcessedBullets :
    converted_lines[k] =
      [j \in 1..FormulaLevel(k) |-> HASH] \o <<SP>>
        \o ContentOf(Trimmed(lines[k]))

\* C9: after any prefix of the document, current_heading_level is the '#'
\* count of the last heading line of the prefix (0 if there is none) and
\* lies in 0..7; only a step that processes a heading line changes it.
C9_LevelTracksLastHeading ==
  /\ [](/\ current_heading_level \in 0..7
        /\ pc # "start" =>
             current_heading_level = LastHeadingCount(SubSeq(lines, 1, idx)))
  /\ [][current_heading_level' # current_heading_level
          => pc = "loop" /\ idx < Len(lines) /\ IsHeadingText(lines[idx + 1])]_vars

C9_Witness ==
  /\ idx = 3
  /\ IsHeadingText(lines[1])
  /\ IsBulletText(lines[2])
  /\ IsOtherText(lines[3])
  /\ current_heading_level = 7

\* C10: no emitted line is a bullet line; the line emitted for a bullet has
\* non-empty content that starts with a non-whitespace character and is a
\* heading line whose '#' count is the emitted level; a passed-through line
\* keeps its category; converting the emitted lines again changes none.
C10_OutputHasNoBullets ==
  /\ \A k \in Processed : ~IsBulletText(converted_lines[k])
  /\ \A k \in ProcessedBullets :
       LET content == SubSeq(converted_lines[k], FormulaLevel(k) + 2,
                             Len(converted_lines[k]))
       IN /\ content # <<>>
          /\ ~IsSpace(content[1])
          /\ IsHeadingText(converted_lines[k])
          /\ HeadingCount(converted_lines[k]) = FormulaLevel(k)
  /\ \A k \in ProcessedHeadings : IsHeadingText(converted_lines[k])
  /\ \A k \in ProcessedOthers : IsOtherText(converted_lines[k])
  /\ pc = "done" => ConvertLines(converted_lines) = converted_lines

C10_Witness ==
  /\ pc = "done"
  /\ \E k \in ProcessedBullets :
       /\ lines[k] = <<"-", NBSP, SP, "-", SP, "a">>
       /\ converted_lines[k] = <<"#", "#", " ", "-", " ", "a">>
  /\ ConvertLines(converted_lines) = converted_lines
  /\ converted_lines # lines

=============================================================================
